---------------------------- MODULE Spec2Model ----------------------------
(***************************************************************************)
(* Message handlers of insteon_mqtt/handler: DeviceDbModify, DeviceRefresh *)
(* and StandardCmd, each driven by the dispatch loop that offers it        *)
(* messages (msg_received) and polls its time out (is_expired).            *)
(***************************************************************************)
EXTENDS Integers, Sequences, FiniteSets

(***************************************************************************)
(* Bounds of the model.                                                    *)
(***************************************************************************)
MaxChain == 3
NumEntries == 2
MaxNumRetry == 3
MaxTime == 7
MaxMiss == 2
NumStd == 2
MaxExpiries == 4

(***************************************************************************)
(* Messages.  One record shape for the four message classes the handlers   *)
(* test with isinstance: addr is to_addr of an Out* message (the modem's   *)
(* echo of a sent command) and from_addr of an Inp* message (a device's    *)
(* reply).  is_ack is read on Out* messages only, ftype (flags.type) on    *)
(* Inp* messages only.                                                     *)
(***************************************************************************)
Addrs == {"A", "B"}
Cmds == {47, 25}
Deltas == {47, 25}
FlagTypes == {"DIRECT_ACK", "DIRECT_NAK", "BROADCAST"}

OutMsgs(k) == [kind : {k}, addr : Addrs, cmd1 : Cmds, is_ack : BOOLEAN,
               ftype : {"DIRECT"}]
InpMsgs(k) == [kind : {k}, addr : Addrs, cmd1 : Cmds, is_ack : {FALSE},
               ftype : FlagTypes]
Messages == OutMsgs("OutStandard") \cup OutMsgs("OutExtended")
              \cup InpMsgs("InpStandard") \cup InpMsgs("InpExtended")
NoMsg == [kind |-> "none", addr |-> "A", cmd1 |-> 0, is_ack |-> FALSE,
          ftype |-> "DIRECT"]

None == 0
Entries == 1..NumEntries

VARIABLES
  \* ---- DeviceDbModify and what it acts on
  db_addr,      \* self.db.addr
  entry,        \* self.entry
  orig_entry,   \* self.orig_entry
  next,         \* self.next: sequence of <<msg, entry>>
  mirror,       \* the calls self.db.add_entry(e) made so far, in order
  done,         \* the calls self.on_done(success, text, entry) made so far
  sent,         \* the calls protocol.send(msg, self) the handler made so far
  modState,     \* "new", "active", "queued" or "removed" in the dispatch loop
  modRet,       \* what the last msg_received call returned
  modOffered,   \* the message of that call (NoMsg after any other step)
  submitted,    \* every entry given to the handler, in submission order
  acks,         \* the direct ACKs of a database write offered to the handler
  modLog,       \* the calls add_entry, send and on_done of the handler, in
                \* the order the code made them
  \* ---- DeviceRefresh and what it acts on
  rf_addr,      \* self.addr
  force,        \* self.force
  send_count,   \* self.send_count
  num_retry,    \* self.num_retry
  now,          \* the clock of the dispatch loop
  expire_time,  \* the handler's deadline, set when its message is written
  rfState,      \* "new", "active", "queued" or "removed" in the dispatch loop
  probes,       \* the calls protocol.send(self.msg, self) made so far
  expiries,     \* the is_expired calls that returned True so far
  rfExpired,    \* what the last is_expired call returned ("NONE" otherwise)
  rfRet,        \* what the last msg_received call returned
  rfOffered,    \* the message of that call (NoMsg after any other step)
  db_delta,     \* the delta of the database mirror (None after clear())
  calls,        \* the calls made on device and device.db, in order
  refreshed,    \* the messages given to device.handle_refresh
  dumps,        \* the calls protocol.send(db_msg, DeviceDbGet(...))
  set_deltas,   \* the arguments of the calls device.db.set_delta
  dbGet,        \* the DeviceDbGet handlers made, each with the msg.cmd1 its
                \* on_done closure holds and whether it has completed
  \* ---- StandardCmd
  std,          \* handler -> [addr |-> self.addr, cmd |-> self.cmd]
  stdState,     \* handler -> "new", "active" or "removed" in the dispatch loop
  callbacks,    \* handler -> the calls self.callback(msg) made so far
  stdRet,       \* handler -> what msg_received returned in the last dispatch
                \* ("NONE" when the handler was not offered the message)
  stdOffered,   \* the message of the last dispatch (NoMsg after other steps)
  unclaimed,    \* the replies read so far that no handler claimed
  \* ---- a dispatch loop holding handlers of both kinds
  order         \* the active handlers, "refresh" and "std", as registered

modVars == <<db_addr, entry, orig_entry, next, mirror, done, sent, modState,
             modRet, modOffered, submitted, acks, modLog>>
rfVars == <<rf_addr, force, send_count, num_retry, now, expire_time, rfState,
            probes, expiries, rfExpired, rfRet, rfOffered, db_delta, calls,
            refreshed, dumps, set_deltas, dbGet>>
stdVars == <<std, stdState, callbacks, stdRet, stdOffered, unclaimed>>
vars == <<modVars, rfVars, stdVars, order>>


(***************************************************************************)
(* DeviceDbModify                                                          *)
(***************************************************************************)
\* The payloads of the database write messages given to add_update.
WriteMsgs == {1, 2}

\* 0x2f, the all link database command.
DbCmd == 47

\* __init__(device_db, entry, on_done): the handler as constructed, not yet
\* given to protocol.send.  The handler reads addresses only to compare them
\* with db.addr, so one address stands for any.
ModInit ==
  /\ db_addr = "A"
  /\ entry \in Entries
  /\ orig_entry = entry
  /\ next = <<>>
  /\ mirror = <<>>
  /\ done = <<>>
  /\ sent = <<>>
  /\ modState = "new"
  /\ modRet = "NONE"
  /\ modOffered = NoMsg
  /\ submitted = <<entry>>
  /\ acks = 0
  /\ modLog = <<>>

\* add_update(msg, entry): self.next.append((msg, entry)).
Appended(q, msg, e) == Append(q, <<msg, e>>)

\* As Popped, taking the pair added last: self.next.pop().
Popped_Last(q) ==
  [msg |-> q[Len(q)][1], entry |-> q[Len(q)][2],
   rest |-> SubSeq(q, 1, Len(q) - 1)]

\* As Popped, leaving the pair in the queue: self.next[0].
Popped_Kept(q) == [msg |-> Head(q)[1], entry |-> Head(q)[2], rest |-> q]

\* msg, self.entry = self.next.pop(0)
Popped(q) == [msg |-> Head(q)[1], entry |-> Head(q)[2], rest |-> Tail(q)]

\* The caller adds a future call while the chain has not ended.
AddUpdate(msg, e) ==
  /\ modState # "removed"
  /\ Len(submitted) < MaxChain
  /\ next' = Appended(next, msg, e)
  /\ submitted' = Append(submitted, e)
  /\ modRet' = "NONE"
  /\ modOffered' = NoMsg
  /\ UNCHANGED <<db_addr, entry, orig_entry, mirror, done, sent, modState,
                 acks, modLog>>

\* The caller's protocol.send(first_msg, handler): the handler becomes the
\* active handler of the dispatch loop.
ModStart ==
  /\ modState = "new"
  /\ modState' = "active"
  /\ modRet' = "NONE"
  /\ modOffered' = NoMsg
  /\ UNCHANGED <<db_addr, entry, orig_entry, next, mirror, done, sent,
                 submitted, acks, modLog>>

\* The dispatch loop writes the message the handler queued with
\* protocol.send(msg, self) and installs the handler again.
ModWrite ==
  /\ modState = "queued"
  /\ modState' = "active"
  /\ modRet' = "NONE"
  /\ modOffered' = NoMsg
  /\ UNCHANGED <<db_addr, entry, orig_entry, next, mirror, done, sent,
                 submitted, acks, modLog>>

\* isinstance(msg, Msg.OutExtended) and
\* msg.to_addr == self.db.addr and msg.cmd1 == 0x2f
ModEchoMatches(m) ==
  m.kind = "OutExtended" /\ m.addr = db_addr /\ m.cmd1 = DbCmd

\* As ModReplyMatches, without the test of cmd1.
ModReplyMatches_AnyCmd(m) ==
  m.kind = "InpStandard" /\ m.addr = db_addr

\* isinstance(msg, Msg.InpStandard) and
\* msg.from_addr == self.db.addr and msg.cmd1 == 0x2f
ModReplyMatches(m) ==
  m.kind = "InpStandard" /\ m.addr = db_addr /\ m.cmd1 = DbCmd

\* self.on_done(False, "Device database update failed", None)
DoneFailure ==
  [success |-> FALSE, text |-> "Device database update failed",
   entry |-> None]

\* As DoneSuccess, passing self.entry.
DoneSuccess_Current ==
  [success |-> TRUE, text |-> "Device database update complete",
   entry |-> entry]

\* self.on_done(True, "Device database update complete", self.orig_entry)
DoneSuccess ==
  [success |-> TRUE, text |-> "Device database update complete",
   entry |-> orig_entry]

\* As ModFail, going on with the next message of the chain.
ModFail_GoesOn ==
  /\ done' = Append(done, DoneFailure)
  /\ modRet' = "FINISHED"
  /\ IF next # <<>>
       THEN /\ entry' = Popped(next).entry
            /\ next' = Popped(next).rest
            /\ sent' = Append(sent, [msg |-> Popped(next).msg,
                                      handler |-> "self"])
            /\ modState' = "queued"
       ELSE /\ modState' = "removed"
            /\ UNCHANGED <<entry, next, sent>>
  /\ modLog' = Append(modLog, "on_done")
  /\ UNCHANGED mirror

\* As ModFail, without the done callback.
ModFail_Silent ==
  /\ modRet' = "FINISHED"
  /\ modState' = "removed"
  /\ UNCHANGED <<entry, next, mirror, done, sent, modLog>>

\* The echo is a NAK, or the reply is a DIRECT_NAK or of another type.
ModFail ==
  /\ done' = Append(done, DoneFailure)
  /\ modRet' = "FINISHED"
  /\ modState' = "removed"
  /\ modLog' = Append(modLog, "on_done")
  /\ UNCHANGED <<entry, next, mirror, sent>>

\* As DirectAckCalls, with add_entry called last.
DirectAckCalls_EntryLast(log, after) == log \o <<after, "add_entry">>

\* The calls of the DIRECT_ACK branch in the order of the code:
\* self.db.add_entry(self.entry), then protocol.send(msg, self) or
\* self.on_done(...).
DirectAckCalls(log, after) == log \o <<"add_entry", after>>

\* As ModDirectAck, running the done callback after every step.
ModDirectAck_EachStep ==
  /\ mirror' = Append(mirror, entry)
  /\ done' = Append(done, DoneSuccess)
  /\ IF next # <<>>
       THEN /\ entry' = Popped(next).entry
            /\ next' = Popped(next).rest
            /\ sent' = Append(sent, [msg |-> Popped(next).msg,
                                      handler |-> "self"])
            /\ modState' = "queued"
            /\ modLog' = modLog \o <<"add_entry", "on_done", "send">>
       ELSE /\ modState' = "removed"
            /\ modLog' = modLog \o <<"add_entry", "on_done">>
            /\ UNCHANGED <<entry, next, sent>>
  /\ modRet' = "FINISHED"

\* The reply is a DIRECT_ACK: update the mirror, then send the next message
\* of the chain or run the done callback.
ModDirectAck ==
  /\ mirror' = Append(mirror, entry)
  /\ IF next # <<>>
       THEN /\ entry' = Popped(next).entry
            /\ next' = Popped(next).rest
            /\ sent' = Append(sent, [msg |-> Popped(next).msg,
                                      handler |-> "self"])
            /\ modState' = "queued"
            /\ modLog' = DirectAckCalls(modLog, "send")
            /\ UNCHANGED done
       ELSE /\ done' = Append(done, DoneSuccess)
            /\ modState' = "removed"
            /\ modLog' = DirectAckCalls(modLog, "on_done")
            /\ UNCHANGED <<entry, next, sent>>
  /\ modRet' = "FINISHED"

\* A reply from the device of the database, to the database command, whose
\* flags.type is DIRECT_ACK.
DirectAck(m) ==
  /\ m.kind = "InpStandard" /\ m.addr = db_addr /\ m.cmd1 = 47
  /\ m.ftype = "DIRECT_ACK"

\* A NAK echo of the database command to the device of the database, or a
\* reply from it to the database command whose flags.type is not DIRECT_ACK.
Failure(m) ==
  \/ m.kind = "OutExtended" /\ m.addr = db_addr /\ m.cmd1 = 47 /\ ~m.is_ack
  \/ /\ m.kind = "InpStandard" /\ m.addr = db_addr /\ m.cmd1 = 47
     /\ m.ftype # "DIRECT_ACK"

\* msg_received(protocol, msg), called by the dispatch loop on its active
\* handler.
ModMsgReceived(m) ==
  /\ modState = "active"
  /\ modOffered' = m
  /\ IF ModEchoMatches(m)
       THEN IF m.is_ack
              THEN /\ modRet' = "CONTINUE"
                   /\ UNCHANGED <<entry, next, mirror, done, sent, modState,
                                  modLog>>
              ELSE ModFail
       ELSE IF ModReplyMatches(m)
              THEN IF m.ftype = "DIRECT_ACK"
                     THEN ModDirectAck
                     ELSE ModFail
              ELSE /\ modRet' = "UNKNOWN"
                   /\ UNCHANGED <<entry, next, mirror, done, sent, modState,
                                  modLog>>
  /\ acks' = IF DirectAck(m) THEN acks + 1 ELSE acks
  /\ UNCHANGED <<db_addr, orig_entry, submitted>>


(***************************************************************************)
(* DeviceRefresh                                                           *)
(***************************************************************************)
\* The handler's time out: the deadline is this long after the write.
TimeOut == 1

\* 0x19, the status request the device layer sends as the refresh message.
RefreshCmd == 25

\* self.msg, the refresh message: sent again if the handler times out.
Probe ==
  [kind |-> "OutStandard", addr |-> rf_addr, cmd1 |-> RefreshCmd,
   is_ack |-> FALSE, ftype |-> "DIRECT"]

\* db_msg = Msg.OutExtended.direct(self.addr, 0x2f, 0x00, bytes(14))
DumpMsg ==
  [kind |-> "OutExtended", addr |-> rf_addr, cmd1 |-> DbCmd, cmd2 |-> 0,
   data |-> [i \in 1..14 |-> 0]]

\* __init__(device, msg, force, num_retry=3): the handler as constructed, not
\* yet given to protocol.send, and the database mirror of its device.  The
\* handler reads addresses only to compare them with self.addr, so one
\* address stands for any.
RfInit ==
  /\ rf_addr = "A"
  /\ force \in BOOLEAN
  /\ send_count = 1
  /\ num_retry \in 1..MaxNumRetry
  /\ now = 0
  /\ expire_time = 0
  /\ rfState = "new"
  /\ probes = 0
  /\ expiries = 0
  /\ rfExpired = "NONE"
  /\ rfRet = "NONE"
  /\ rfOffered = NoMsg
  /\ db_delta \in Deltas \cup {None}
  /\ calls = <<>>
  /\ refreshed = <<>>
  /\ dumps = <<>>
  /\ set_deltas = <<>>
  /\ dbGet = <<>>

\* Time passes while the handler waits in the dispatch loop.
RfTick ==
  /\ rfState \in {"active", "queued"}
  /\ now < MaxTime
  /\ now' = now + 1
  /\ rfExpired' = "NONE"
  /\ rfRet' = "NONE"
  /\ rfOffered' = NoMsg
  /\ UNCHANGED <<rf_addr, force, send_count, num_retry, expire_time, rfState,
                 probes, expiries, db_delta, calls, refreshed, dumps,
                 set_deltas, dbGet>>

\* The caller's protocol.send(msg, handler): the first send of the probe.
RfStart ==
  /\ rfState = "new"
  /\ rfState' = "active"
  /\ probes' = probes + 1
  /\ expire_time' = now + TimeOut
  /\ rfExpired' = "NONE"
  /\ rfRet' = "NONE"
  /\ rfOffered' = NoMsg
  /\ UNCHANGED <<rf_addr, force, send_count, num_retry, now, expiries,
                 db_delta, calls, refreshed, dumps, set_deltas, dbGet>>

\* The dispatch loop writes the probe the handler queued again in is_expired
\* and installs the handler again, with a new deadline.
RfWrite ==
  /\ rfState = "queued"
  /\ rfState' = "active"
  /\ expire_time' = now + TimeOut
  /\ rfExpired' = "NONE"
  /\ rfRet' = "NONE"
  /\ rfOffered' = NoMsg
  /\ UNCHANGED <<rf_addr, force, send_count, num_retry, now, probes, expiries,
                 db_delta, calls, refreshed, dumps, set_deltas, dbGet>>

\* Base.is_expired(protocol, t): past the deadline.
BaseIsExpired(t) == t > expire_time

\* As NotExpired, without the early return.
NotExpired_Skipped(t) == FALSE

\* if not super().is_expired(protocol, t): return False
NotExpired(t) == ~BaseIsExpired(t)

\* As MayRetry, with <=.
MayRetry_Inclusive == send_count <= num_retry

\* if self.send_count < self.num_retry
MayRetry == send_count < num_retry

\* is_expired(protocol, t) called with the current time.  The caller ends
\* the handler when it returns True; the probe sent again is queued with the
\* handler.
IsExpiredCall ==
  /\ IF NotExpired(now)
       THEN /\ rfExpired' = "FALSE"
            /\ UNCHANGED <<send_count, probes, rfState, expiries>>
       ELSE /\ IF MayRetry
                 THEN /\ send_count' = send_count + 1
                      /\ probes' = probes + 1
                      /\ rfState' = "queued"
                 ELSE /\ rfState' = "removed"
                      /\ UNCHANGED <<send_count, probes>>
            /\ expiries' = expiries + 1
            /\ rfExpired' = "TRUE"
  /\ rfRet' = "NONE"
  /\ rfOffered' = NoMsg
  /\ UNCHANGED <<rf_addr, force, num_retry, now, expire_time, db_delta, calls,
                 refreshed, dumps, set_deltas, dbGet>>

\* The dispatch loop polls is_expired on its active handler.
RfIsExpired == rfState = "active" /\ IsExpiredCall

\* is_expired called on a handler that has already ended: the stale expiry
\* check that msg_received turns the retries off for.
RfIsExpiredLate ==
  /\ rfState = "removed"
  /\ expiries < MaxExpiries
  /\ IsExpiredCall

\* Time passes after the handler has ended.
RfLateTick ==
  /\ rfState = "removed"
  /\ now < MaxTime
  /\ now' = now + 1
  /\ rfExpired' = "NONE"
  /\ rfRet' = "NONE"
  /\ rfOffered' = NoMsg
  /\ UNCHANGED <<rf_addr, force, send_count, num_retry, expire_time, rfState,
                 probes, expiries, db_delta, calls, refreshed, dumps,
                 set_deltas, dbGet>>

\* self.device.db.is_current(delta)
IsCurrent(delta) == db_delta = delta

\* As UpToDate, without the not.
UpToDate_Forced(m) == force /\ IsCurrent(m.cmd1)

\* not self.force and self.device.db.is_current(msg.cmd1)
UpToDate(m) == ~force /\ IsCurrent(m.cmd1)

\* isinstance(msg, Msg.OutStandard) and msg.to_addr == self.addr
RfEchoMatches(m) == m.kind = "OutStandard" /\ m.addr = rf_addr

\* isinstance(msg, Msg.InpStandard) and msg.from_addr == self.addr
RfReplyMatches(m) == m.kind = "InpStandard" /\ m.addr = rf_addr

\* The database is out of date: clear it and request all of its records,
\* with a DeviceDbGet handler whose on_done closure holds msg.
RfDownload(m) ==
  /\ calls' = calls \o <<"handle_refresh", "clear", "send">>
  /\ db_delta' = None
  /\ dumps' = Append(dumps, [msg |-> DumpMsg, handler |-> "DeviceDbGet"])
  /\ dbGet' = Append(dbGet, [cmd1 |-> m.cmd1, state |-> "pending"])

\* As RetriesOff, leaving send_count as it is.
RetriesOff_Kept == send_count

\* As RetriesOff, one past the retries.
RetriesOff_Over == num_retry + 1

\* self.send_count = self.num_retry
RetriesOff == num_retry

\* The reply to the probe.
RfReply(m) ==
  /\ send_count' = RetriesOff
  /\ refreshed' = Append(refreshed, m)
  /\ IF UpToDate(m)
       THEN /\ calls' = Append(calls, "handle_refresh")
            /\ UNCHANGED <<db_delta, dumps, dbGet>>
       ELSE RfDownload(m)
  /\ rfRet' = "FINISHED"
  /\ rfState' = "removed"

\* msg_received(protocol, msg), called by the dispatch loop on its active
\* handler.
RfMsgReceived(m) ==
  /\ rfState = "active"
  /\ rfOffered' = m
  /\ IF RfEchoMatches(m)
       THEN /\ IF m.is_ack
                 THEN rfRet' = "CONTINUE" /\ UNCHANGED rfState
                 ELSE rfRet' = "FINISHED" /\ rfState' = "removed"
            /\ UNCHANGED <<send_count, refreshed, calls, db_delta, dumps,
                           dbGet>>
       ELSE IF RfReplyMatches(m)
              THEN RfReply(m)
              ELSE /\ rfRet' = "UNKNOWN"
                   /\ UNCHANGED <<send_count, refreshed, calls, db_delta,
                                  dumps, dbGet, rfState>>
  /\ rfExpired' = "NONE"
  /\ UNCHANGED <<rf_addr, force, num_retry, now, expire_time, probes,
                 expiries, set_deltas>>

\* As OnDoneDelta, without the test of success.
OnDoneDelta_Always(success, h) == <<h.cmd1>>

\* def on_done(success, message): if success: self.device.db.set_delta(msg.cmd1)
\* The arguments of the set_delta calls the callback of handler h makes.
OnDoneDelta(success, h) == IF success THEN <<h.cmd1>> ELSE <<>>

\* The DeviceDbGet handler i ends and runs its on_done callback.
DbGetDone(i, success) ==
  /\ i \in 1..Len(dbGet)
  /\ dbGet[i].state = "pending"
  /\ dbGet' = [dbGet EXCEPT ![i].state = IF success THEN "ok" ELSE "failed"]
  /\ set_deltas' = set_deltas \o OnDoneDelta(success, dbGet[i])
  /\ calls' = calls \o [k \in 1..Len(OnDoneDelta(success, dbGet[i])) |-> "set_delta"]
  /\ db_delta' = IF OnDoneDelta(success, dbGet[i]) = <<>> THEN db_delta
                 ELSE OnDoneDelta(success, dbGet[i])[1]
  /\ rfExpired' = "NONE"
  /\ rfRet' = "NONE"
  /\ rfOffered' = NoMsg
  /\ UNCHANGED <<rf_addr, force, send_count, num_retry, now, expire_time,
                 rfState, probes, expiries, refreshed, dumps>>


(***************************************************************************)
(* StandardCmd                                                             *)
(***************************************************************************)
StdIds == 1..NumStd

\* __init__(msg, callback): self.addr = msg.to_addr, self.cmd = msg.cmd1, for
\* each of the commands in flight.  The handlers read addresses and commands
\* only to compare them, so the first handler's pair stands for any, and the
\* other handlers have the same pair or differ in either part or both.
StdInit ==
  /\ std \in [StdIds -> [addr : Addrs, cmd : Cmds]]
  /\ std[1] = [addr |-> "A", cmd |-> RefreshCmd]
  /\ stdState = [i \in StdIds |-> "new"]
  /\ callbacks = [i \in StdIds |-> <<>>]
  /\ stdRet = [i \in StdIds |-> "NONE"]
  /\ stdOffered = NoMsg
  /\ unclaimed = 0

\* The caller's protocol.send(msg, handler): handlers are registered in the
\* order of their sends.
StdStart(i) ==
  /\ stdState[i] = "new"
  /\ \A j \in StdIds : j < i => stdState[j] # "new"
  /\ stdState' = [stdState EXCEPT ![i] = "active"]
  /\ stdRet' = [j \in StdIds |-> "NONE"]
  /\ stdOffered' = NoMsg
  /\ UNCHANGED <<std, callbacks, unclaimed>>

\* As StdEchoMatches, without the test of cmd1.
StdEchoMatches_AddrOnly(h, m) == m.addr = h.addr

\* msg.to_addr == self.addr and msg.cmd1 == self.cmd
StdEchoMatches(h, m) == m.addr = h.addr /\ m.cmd1 = h.cmd

\* As StdReplyMatches, without the test of cmd1.
StdReplyMatches_AddrOnly(h, m) == m.addr = h.addr

\* msg.from_addr == self.addr and msg.cmd1 == self.cmd
StdReplyMatches(h, m) == m.addr = h.addr /\ m.cmd1 = h.cmd

\* As StdResult, returning FINISHED for any InpStandard message.
StdResult_FinishAny(h, m) ==
  IF m.kind = "OutStandard"
    THEN IF StdEchoMatches(h, m) THEN "CONTINUE" ELSE "UNKNOWN"
    ELSE IF m.kind = "InpStandard" THEN "FINISHED" ELSE "UNKNOWN"

\* What msg_received(protocol, msg) of handler h returns.
StdResult(h, m) ==
  IF m.kind = "OutStandard"
    THEN IF StdEchoMatches(h, m) THEN "CONTINUE" ELSE "UNKNOWN"
    ELSE IF m.kind = "InpStandard"
           THEN IF StdReplyMatches(h, m) THEN "FINISHED" ELSE "UNKNOWN"
           ELSE "UNKNOWN"

\* The calls self.callback(msg) that msg_received(protocol, msg) of handler h
\* makes.
StdCallbacks(h, m) ==
  IF m.kind = "InpStandard" /\ StdReplyMatches(h, m) THEN <<m>> ELSE <<>>

\* The dispatch loop offers a message to the active handlers in registration
\* order until one returns other than UNKNOWN.
StdIsOffered(i, m) ==
  /\ stdState[i] = "active"
  /\ \A j \in StdIds :
       (j < i /\ stdState[j] = "active") => StdResult(std[j], m) = "UNKNOWN"

\* A reply that every active handler returns UNKNOWN for.
IsUnclaimed(m) ==
  /\ m.kind = "InpStandard"
  /\ \A i \in StdIds :
       stdState[i] = "active" => StdResult(std[i], m) = "UNKNOWN"

\* One message read by the dispatch loop: msg_received of each handler it is
\* offered to; a handler that returns FINISHED is removed.
StdDispatch(m) ==
  /\ \E i \in StdIds : stdState[i] = "active"
  /\ stdOffered' = m
  /\ stdRet' = [i \in StdIds |->
                  IF StdIsOffered(i, m) THEN StdResult(std[i], m) ELSE "NONE"]
  /\ callbacks' = [i \in StdIds |->
                  IF StdIsOffered(i, m)
                    THEN callbacks[i] \o StdCallbacks(std[i], m)
                    ELSE callbacks[i]]
  /\ stdState' = [i \in StdIds |->
                  IF StdIsOffered(i, m) /\ StdResult(std[i], m) = "FINISHED"
                    THEN "removed" ELSE stdState[i]]
  /\ unclaimed' = IF IsUnclaimed(m) /\ unclaimed < MaxMiss
                    THEN unclaimed + 1 ELSE unclaimed
  /\ UNCHANGED std

(***************************************************************************)
(* Specifications: one per handler; the handlers that take no part stay as *)
(* constructed.                                                            *)
(***************************************************************************)
ModParked ==
  /\ db_addr = "A" /\ entry = 1 /\ orig_entry = 1 /\ next = <<>>
  /\ mirror = <<>> /\ done = <<>> /\ sent = <<>> /\ modState = "new"
  /\ modRet = "NONE" /\ modOffered = NoMsg /\ submitted = <<1>> /\ acks = 0
  /\ modLog = <<>>

RfParked ==
  /\ rf_addr = "A" /\ force = FALSE /\ send_count = 1 /\ num_retry = 1
  /\ now = 0 /\ expire_time = 0 /\ rfState = "new" /\ probes = 0
  /\ expiries = 0 /\ rfExpired = "NONE" /\ rfRet = "NONE"
  /\ rfOffered = NoMsg /\ db_delta = None /\ calls = <<>>
  /\ refreshed = <<>> /\ dumps = <<>> /\ set_deltas = <<>> /\ dbGet = <<>>

StdParked ==
  /\ std = [i \in StdIds |-> [addr |-> "A", cmd |-> RefreshCmd]]
  /\ stdState = [i \in StdIds |-> "new"]
  /\ callbacks = [i \in StdIds |-> <<>>]
  /\ stdRet = [i \in StdIds |-> "NONE"]
  /\ stdOffered = NoMsg
  /\ unclaimed = 0

InitMod == ModInit /\ RfParked /\ StdParked /\ order = <<>>

NextMod ==
  \/ \E msg \in WriteMsgs, e \in Entries :
       AddUpdate(msg, e) /\ UNCHANGED <<rfVars, stdVars, order>>
  \/ ModStart /\ UNCHANGED <<rfVars, stdVars, order>>
  \/ ModWrite /\ UNCHANGED <<rfVars, stdVars, order>>
  \/ \E m \in Messages : ModMsgReceived(m) /\ UNCHANGED <<rfVars, stdVars, order>>

SpecMod == InitMod /\ [][NextMod]_vars

\* The loop reads the ACK echo of the database command.
ModEchoAckRead ==
  \E m \in Messages :
    /\ ModEchoMatches(m) /\ m.is_ack
    /\ ModMsgReceived(m) /\ UNCHANGED <<rfVars, stdVars, order>>

\* The loop reads a direct ACK of the database command from the device.
ModDirectAckRead ==
  \E m \in Messages :
    /\ DirectAck(m)
    /\ ModMsgReceived(m) /\ UNCHANGED <<rfVars, stdVars, order>>

\* The traffic of the chain itself: the echoes of the database command to
\* the device and the device's replies to it, of any class and outcome.
NextModChain ==
  \/ \E msg \in WriteMsgs, e \in Entries :
       AddUpdate(msg, e) /\ UNCHANGED <<rfVars, stdVars, order>>
  \/ ModStart /\ UNCHANGED <<rfVars, stdVars, order>>
  \/ ModWrite /\ UNCHANGED <<rfVars, stdVars, order>>
  \/ \E m \in Messages :
       /\ m.addr = db_addr /\ m.cmd1 = DbCmd
       /\ ModMsgReceived(m) /\ UNCHANGED <<rfVars, stdVars, order>>

\* A loop with the traffic of the chain where every queued message is written
\* and every step sent gets its ACK echo and its direct ACK from the device,
\* unless the chain ends before.
FairSpecMod ==
  /\ InitMod /\ [][NextModChain]_vars
  /\ WF_vars(ModWrite /\ UNCHANGED <<rfVars, stdVars, order>>)
  /\ WF_vars(ModEchoAckRead)
  /\ WF_vars(ModDirectAckRead)

InitRefresh == RfInit /\ ModParked /\ StdParked /\ order = <<>>

NextRefresh ==
  \/ RfTick /\ UNCHANGED <<modVars, stdVars, order>>
  \/ RfStart /\ UNCHANGED <<modVars, stdVars, order>>
  \/ RfWrite /\ UNCHANGED <<modVars, stdVars, order>>
  \/ RfIsExpired /\ UNCHANGED <<modVars, stdVars, order>>
  \/ \E m \in Messages : RfMsgReceived(m) /\ UNCHANGED <<modVars, stdVars, order>>
  \/ \E i \in 1..Len(dbGet), ok \in BOOLEAN :
       DbGetDone(i, ok) /\ UNCHANGED <<modVars, stdVars, order>>

SpecRefresh == InitRefresh /\ [][NextRefresh]_vars

\* SpecRefresh with the scheduling of the dispatch loop: time passes while a
\* handler waits, a queued message is written, the active handler is polled.
\* No reply is promised.
FairSpecRefresh ==
  /\ SpecRefresh
  /\ WF_vars(RfTick /\ UNCHANGED <<modVars, stdVars, order>>)
  /\ WF_vars(RfWrite /\ UNCHANGED <<modVars, stdVars, order>>)
  /\ WF_vars(RfIsExpired /\ UNCHANGED <<modVars, stdVars, order>>)

\* As SpecRefresh, with is_expired also called on a handler that has ended.
NextRefreshLate ==
  \/ NextRefresh
  \/ RfLateTick /\ UNCHANGED <<modVars, stdVars, order>>
  \/ RfIsExpiredLate /\ UNCHANGED <<modVars, stdVars, order>>

SpecRefreshLate == InitRefresh /\ [][NextRefreshLate]_vars

InitStd == StdInit /\ ModParked /\ RfParked /\ order = <<>>

NextStd ==
  \/ \E i \in StdIds : StdStart(i) /\ UNCHANGED <<modVars, rfVars, order>>
  \/ \E m \in Messages : StdDispatch(m) /\ UNCHANGED <<modVars, rfVars, order>>

SpecStd == InitStd /\ [][NextStd]_vars

(***************************************************************************)
(* One dispatch loop with a DeviceRefresh handler and a StandardCmd        *)
(* handler for the same device.  The loop keeps its active handlers in     *)
(* registration order and offers each message read to them in that order   *)
(* until one returns other than UNKNOWN.  The loop is followed up to the   *)
(* first deadline of the probe, so no handler expires, and the download    *)
(* that the DeviceRefresh hands to a DeviceDbGet is not followed.          *)
(***************************************************************************)
\* What msg_received(protocol, msg) of the DeviceRefresh handler returns.
RfResult(m) ==
  IF RfEchoMatches(m)
    THEN IF m.is_ack THEN "CONTINUE" ELSE "FINISHED"
    ELSE IF RfReplyMatches(m) THEN "FINISHED" ELSE "UNKNOWN"

\* Handler a is registered before handler b.
Before(a, b) ==
  \E i, j \in 1..Len(order) : i < j /\ order[i] = a /\ order[j] = b

\* The step is not a msg_received or is_expired call of DeviceRefresh.
RfPassed ==
  /\ rfOffered' = NoMsg /\ rfRet' = "NONE" /\ rfExpired' = "NONE"
  /\ UNCHANGED <<rf_addr, force, send_count, num_retry, now, expire_time,
                 rfState, probes, expiries, db_delta, calls, refreshed,
                 dumps, set_deltas, dbGet>>

\* The step is not a msg_received call of a StandardCmd.
StdPassed ==
  /\ stdOffered' = NoMsg /\ stdRet' = [i \in StdIds |-> "NONE"]
  /\ UNCHANGED <<std, stdState, callbacks, unclaimed>>

\* The two handlers are sent in either order.  The StandardCmd handler 1 is
\* for the device of the DeviceRefresh handler; the other StandardCmd
\* handlers are never sent.
InitBoth ==
  /\ RfInit
  /\ \E c \in Cmds : std = [i \in StdIds |-> [addr |-> rf_addr, cmd |-> c]]
  /\ stdState = [i \in StdIds |-> "new"]
  /\ callbacks = [i \in StdIds |-> <<>>]
  /\ stdRet = [i \in StdIds |-> "NONE"]
  /\ stdOffered = NoMsg
  /\ unclaimed = 0
  /\ ModParked
  /\ order = <<>>

\* One message read by the loop.
BothDispatch(m) ==
  LET rfClaims == rfState = "active" /\ RfResult(m) # "UNKNOWN"
      stdClaims == stdState[1] = "active" /\ StdResult(std[1], m) # "UNKNOWN"
      toRf == rfState = "active" /\ ~(Before("std", "refresh") /\ stdClaims)
      toStd == stdState[1] = "active" /\ ~(Before("refresh", "std") /\ rfClaims)
  IN /\ order # <<>>
     /\ IF toRf THEN RfMsgReceived(m) ELSE RfPassed
     /\ IF toStd THEN StdDispatch(m) ELSE StdPassed
     /\ order' = SelectSeq(order,
                    LAMBDA h : ~ \/ h = "refresh" /\ toRf
                                    /\ RfResult(m) = "FINISHED"
                                 \/ h = "std" /\ toStd
                                    /\ StdResult(std[1], m) = "FINISHED")
     /\ UNCHANGED modVars

NextBoth ==
  \/ RfStart /\ StdPassed /\ order' = Append(order, "refresh")
       /\ UNCHANGED modVars
  \/ StdStart(1) /\ RfPassed /\ order' = Append(order, "std")
       /\ UNCHANGED modVars
  \/ \E m \in Messages : BothDispatch(m)

SpecBoth == InitBoth /\ [][NextBoth]_vars


C2_FifoMirror == mirror = SubSeq(submitted, 1, acks)

\* Two different entries were applied in order and the third step failed.
C2_Witness ==
  /\ Len(mirror) = 2 /\ mirror[1] # mirror[2]
  /\ Len(submitted) = 3
  /\ Len(done) = 1 /\ ~done[1].success

C4_FailureAborts ==
  [][/\ (modState = "active" /\ Failure(modOffered')) =>
          /\ done' = Append(done, [success |-> FALSE,
                                   text |-> "Device database update failed",
                                   entry |-> None])
          /\ modRet' = "FINISHED"
          /\ modState' = "removed"
          /\ sent' = sent
          /\ mirror' = mirror
     /\ (\E i \in 1..Len(done) : ~done[i].success) =>
          (sent' = sent /\ mirror' = mirror)]_vars

\* The second step of a chain of three failed: the first entry stays applied
\* and the third message was never sent.
C4_Witness ==
  /\ Len(done) = 1 /\ ~done[1].success /\ done[1].entry = None
  /\ modState = "removed" /\ modRet = "FINISHED"
  /\ Len(mirror) = 1 /\ Len(sent) = 1 /\ Len(next) = 1

\* A message the handler has no branch for: neither an extended echo to, nor
\* a standard reply from, the device of the database with cmd1 = 0x2f.
ModForeign(m) ==
  /\ ~(m.kind = "OutExtended" /\ m.addr = db_addr /\ m.cmd1 = 47)
  /\ ~(m.kind = "InpStandard" /\ m.addr = db_addr /\ m.cmd1 = 47)

\* C15: offered a message that is neither an extended echo to, nor a standard
\* reply from, its database's device with cmd1 = 0x2f, the handler returns
\* UNKNOWN, leaves the current entry, the original entry, the pending queue
\* and the mirror as they are, sends nothing and does not run on_done.
C15_ForeignUnknown ==
  [][(modState = "active" /\ modOffered' # NoMsg /\ ModForeign(modOffered')) =>
       /\ modRet' = "UNKNOWN"
       /\ entry' = entry /\ orig_entry' = orig_entry
       /\ next' = next /\ mirror' = mirror
       /\ sent' = sent /\ done' = done
       /\ modState' = "active"]_vars

\* In the middle of a chain the handler was offered a direct ACK from its
\* device to another command and did not claim it.
C15_Witness ==
  /\ modOffered.kind = "InpStandard" /\ modOffered.addr = db_addr
  /\ modOffered.cmd1 # 47 /\ modOffered.ftype = "DIRECT_ACK"
  /\ modRet = "UNKNOWN" /\ modState = "active"
  /\ Len(mirror) = 1 /\ Len(next) = 1 /\ done = <<>>

CallsBefore(c, k) == Cardinality({i \in 1..k : modLog[i] = c})

\* C19: in a step confirmed by a direct ACK, add_entry is called before the
\* next message is sent and before on_done is called; when the success
\* callback runs, add_entry has been called for all N entries of the chain.
C19_MirrorBeforeCallback ==
  /\ CallsBefore("add_entry", Len(modLog)) = Len(mirror)
  /\ \A i \in 1..Len(modLog) :
       /\ modLog[i] = "send" => (i > 1 /\ modLog[i - 1] = "add_entry")
       /\ (modLog[i] = "on_done" /\ done[1].success) =>
            /\ i > 1 /\ modLog[i - 1] = "add_entry"
            /\ CallsBefore("add_entry", i - 1) = Len(submitted)
            /\ mirror = submitted

\* A chain of three steps has ended with success.
C19_Witness ==
  /\ Len(submitted) = 3 /\ Len(done) = 1 /\ done[1].success
  /\ modLog = <<"add_entry", "send", "add_entry", "send", "add_entry",
                "on_done">>

\* The messages sent for the chain: the first by the caller, the others by
\* the handler.
SentForChain == Len(sent) + (IF modState = "new" THEN 0 ELSE 1)

\* C20 as stated: the pending queue gets shorter at each direct ACK and
\* never longer without add_update; at most N messages are sent for a chain
\* of N entries; and if every step sent gets its ACK echo and direct ACK,
\* on_done is eventually called with success and the original entry (once
\* the handler is active, on_done(True, ..., orig_entry) follows unless a NAK
\* or another reply is read).
C20_QueueAlwaysShrinks ==
  /\ [][/\ (modState = "active" /\ DirectAck(modOffered')) =>
              Len(next') < Len(next)
        /\ (Len(next') > Len(next)) =>
             (Len(submitted') = Len(submitted) + 1)
       ]_vars
  /\ [](SentForChain <= Len(submitted))
  /\ (modState = "active") ~>
        (done = <<DoneSuccess>> \/ Failure(modOffered))

\* C20 (amended): the pending queue gets shorter by one at each direct ACK
\* that finds it non-empty, and the direct ACK that finds it empty ends the
\* chain with success; it never gets longer without add_update; at most N
\* messages are sent for a chain of N entries; and if every step sent gets
\* its ACK echo and direct ACK, on_done is eventually called with success and
\* the original entry.
C20_Progress ==
  /\ [][/\ (modState = "active" /\ DirectAck(modOffered')) =>
              IF next # <<>>
                THEN Len(next') = Len(next) - 1 /\ done' = done
                ELSE next' = <<>> /\ done' = <<DoneSuccess>>
        /\ (Len(next') > Len(next)) =>
             (Len(submitted') = Len(submitted) + 1)
       ]_vars
  /\ [](SentForChain <= Len(submitted))
  /\ (modState = "active") ~>
        (done = <<DoneSuccess>> \/ Failure(modOffered))

\* A chain of three entries has ended with success after three messages, the
\* last direct ACK finding the queue empty.
C20_Witness ==
  /\ done = <<DoneSuccess>> /\ DirectAck(modOffered)
  /\ Len(submitted) = 3 /\ SentForChain = 3 /\ next = <<>>

(***************************************************************************)
(* Properties of DeviceRefresh, checked under SpecRefresh.                 *)
(***************************************************************************)
\* A reply from the device of the handler.
ProbeReply(m) == m.kind = "InpStandard" /\ m.addr = rf_addr

C6_IdempotentExpiry ==
  [][(rfExpired' # "NONE" /\ ~BaseIsExpired(now)) =>
       /\ rfExpired' = "FALSE"
       /\ send_count' = send_count
       /\ probes' = probes
       /\ rfState' = rfState]_vars

\* The handler was polled before the deadline of its second send.
C6_Witness ==
  /\ rfExpired = "FALSE" /\ rfState = "active"
  /\ send_count = 2 /\ probes = 2 /\ now <= expire_time

\* C7: a reply processed with force false and a current mirror calls
\* device.handle_refresh and nothing else, enqueues no dump message and
\* returns FINISHED; as long as no dump was enqueued, clear and set_delta
\* have not been called.
C7_FreshnessShortCircuit ==
  /\ [](dumps = <<>> =>
          /\ set_deltas = <<>>
          /\ \A k \in 1..Len(calls) : calls[k] = "handle_refresh")
  /\ [][(rfState = "active" /\ ProbeReply(rfOffered')
           /\ ~force /\ db_delta = rfOffered'.cmd1) =>
          /\ calls' = Append(calls, "handle_refresh")
          /\ refreshed' = Append(refreshed, rfOffered')
          /\ dumps' = dumps
          /\ dbGet' = dbGet
          /\ set_deltas' = set_deltas
          /\ db_delta' = db_delta
          /\ rfRet' = "FINISHED"]_vars

\* A reply carrying the delta of the mirror ended an unforced refresh.
C7_Witness ==
  /\ ~force /\ Len(refreshed) = 1 /\ refreshed[1].cmd1 = db_delta
  /\ rfRet = "FINISHED" /\ rfState = "removed"
  /\ calls = <<"handle_refresh">> /\ dumps = <<>>

\* C8: a reply processed with force true or a mirror that is not current
\* calls handle_refresh, then clear once, then enqueues one extended dump
\* message (cmd1 0x2f, cmd2 0x00, 14 zero bytes) with a DeviceDbGet handler,
\* and returns FINISHED; set_delta is called once per DeviceDbGet handler that
\* completed with success, with the cmd1 of the reply that made the handler,
\* and not for one that failed.
C8_Download ==
  /\ [](/\ Len(dumps) = Len(dbGet)
        /\ Len(set_deltas) =
             Cardinality({i \in 1..Len(dbGet) : dbGet[i].state = "ok"})
        /\ \A i \in 1..Len(set_deltas) :
             /\ Len(refreshed) = 1
             /\ set_deltas[i] = refreshed[1].cmd1)
  /\ [][(rfState = "active" /\ ProbeReply(rfOffered')
           /\ (force \/ db_delta # rfOffered'.cmd1)) =>
          /\ calls' = calls \o <<"handle_refresh", "clear", "send">>
          /\ dumps' = Append(dumps,
               [msg |-> [kind |-> "OutExtended", addr |-> rf_addr,
                         cmd1 |-> 47, cmd2 |-> 0,
                         data |-> [i \in 1..14 |-> 0]],
                handler |-> "DeviceDbGet"])
          /\ Len(dbGet') = Len(dbGet) + 1
          /\ set_deltas' = set_deltas
          /\ rfRet' = "FINISHED"]_vars

\* A forced download of a current mirror completed with success: set_delta
\* got the delta of the reply.
C8_Witness ==
  /\ force /\ Len(refreshed) = 1 /\ Len(dumps) = 1
  /\ dbGet[1].state = "ok"
  /\ set_deltas = <<refreshed[1].cmd1>>
  /\ calls = <<"handle_refresh", "clear", "send", "set_delta">>


(***************************************************************************)
(* Properties of StandardCmd, checked under SpecStd.                       *)
(***************************************************************************)
\* Handler i is offered the message of this step.
StdOfferedTo(i) == stdState[i] = "active" /\ stdRet'[i] # "NONE"

\* C9: a handler offered a reply whose source address or cmd1 is not its own
\* returns UNKNOWN, does not run its callback and stays active and unchanged;
\* an active handler offered a reply with its address and cmd1, whatever was
\* offered before, runs its callback with that reply and returns FINISHED.
C9_UnclaimedTransparency ==
  [][\A i \in StdIds :
       (StdOfferedTo(i) /\ stdOffered'.kind = "InpStandard") =>
         IF stdOffered'.addr = std[i].addr /\ stdOffered'.cmd1 = std[i].cmd
           THEN /\ callbacks'[i] = Append(callbacks[i], stdOffered')
                /\ stdRet'[i] = "FINISHED"
           ELSE /\ stdRet'[i] = "UNKNOWN"
                /\ callbacks'[i] = callbacks[i]
                /\ stdState'[i] = "active"
                /\ std'[i] = std[i]]_vars

\* The only handler in flight was offered two replies that were not its own,
\* then got its reply.
C9_Witness ==
  /\ unclaimed >= 2
  /\ \A j \in StdIds : j > 1 => stdState[j] = "new"
  /\ callbacks[1] = <<stdOffered>>
  /\ stdRet[1] = "FINISHED" /\ stdState[1] = "removed"

\* C10: a handler offered an echo returns CONTINUE if the echo's destination
\* address and cmd1 are both its own, ACK or NAK, and UNKNOWN otherwise; in
\* both cases it stays active and does not run its callback.
C10_EchoContinue ==
  [][\A i \in StdIds :
       (StdOfferedTo(i) /\ stdOffered'.kind = "OutStandard") =>
         /\ stdRet'[i] =
              IF stdOffered'.addr = std[i].addr /\ stdOffered'.cmd1 = std[i].cmd
                THEN "CONTINUE" ELSE "UNKNOWN"
         /\ callbacks'[i] = callbacks[i]
         /\ stdState'[i] = "active"]_vars

\* A handler claimed the NAK echo of its command; another was offered an
\* echo to its address with another cmd1 and did not claim it.
C10_Witness ==
  /\ \E i \in StdIds :
       /\ stdRet[i] = "CONTINUE" /\ stdState[i] = "active"
       /\ stdOffered.kind = "OutStandard" /\ ~stdOffered.is_ack
       /\ callbacks[i] = <<>>
  /\ \E j \in StdIds :
       /\ stdRet[j] = "UNKNOWN" /\ stdOffered.addr = std[j].addr
       /\ stdOffered.cmd1 # std[j].cmd


\* The handlers in flight have pairwise different (address, cmd1) pairs.
StdDistinct == \A i, j \in StdIds : i # j => std[i] # std[j]

\* The message is an echo of, or a reply to, the command of handler i.
StdOwn(i, m) ==
  /\ m.kind \in {"OutStandard", "InpStandard"}
  /\ m.addr = std[i].addr /\ m.cmd1 = std[i].cmd

\* C11: with pairwise different (address, cmd1) pairs, each handler's
\* callback runs at most once, exactly once by the time the handler has
\* finished, and only with a reply from its address with its cmd1; a handler
\* returns CONTINUE or FINISHED only for its own echo or reply, no other
\* handler claims that message, and an active handler whose reply is read
\* gets it whatever the other handlers are and whatever was read before.
C11_OwnReplyOnly ==
  /\ [](StdDistinct =>
          \A i \in StdIds :
            /\ Len(callbacks[i]) <= 1
            /\ (stdState[i] = "removed") <=> (Len(callbacks[i]) = 1)
            /\ \A k \in 1..Len(callbacks[i]) :
                 /\ callbacks[i][k].kind = "InpStandard"
                 /\ StdOwn(i, callbacks[i][k]))
  /\ [][(StdDistinct /\ stdOffered' # NoMsg) =>
          \A i \in StdIds :
            /\ stdRet'[i] \in {"CONTINUE", "FINISHED"} =>
                 /\ StdOwn(i, stdOffered')
                 /\ \A j \in StdIds :
                      j # i => stdRet'[j] \in {"NONE", "UNKNOWN"}
            /\ (stdState[i] = "active" /\ StdOwn(i, stdOffered')) =>
                 /\ stdRet'[i] = IF stdOffered'.kind = "InpStandard"
                                   THEN "FINISHED" ELSE "CONTINUE"
                 /\ callbacks'[i] =
                      IF stdOffered'.kind = "InpStandard"
                        THEN <<stdOffered'>> ELSE callbacks[i]]_vars

\* Two commands to the same address are in flight; the reply to the second
\* was read first: the first handler passed on it and is still active.
C11_Witness ==
  /\ StdDistinct
  /\ std[1].addr = std[2].addr
  /\ stdState[1] = "active" /\ stdRet[1] = "UNKNOWN" /\ callbacks[1] = <<>>
  /\ stdState[2] = "removed" /\ stdRet[2] = "FINISHED"
  /\ callbacks[2] = <<stdOffered>>


(***************************************************************************)
(* Properties of DeviceRefresh under SpecRefreshLate.                      *)
(***************************************************************************)
\* C12: once the handler has processed a reply from its device, an
\* is_expired call, before or after the deadline, sends no probe and leaves
\* send_count as it is.
C12_NoRetryAfterReply ==
  [][(refreshed # <<>> /\ rfExpired' # "NONE") =>
       /\ probes' = probes
       /\ send_count' = send_count
       /\ rfState' = "removed"]_vars

\* The reply came to the first of three possible sends; is_expired was then
\* called after the deadline and returned True.
C12_Witness ==
  /\ Len(refreshed) = 1 /\ num_retry = 3 /\ probes = 1
  /\ rfExpired = "TRUE" /\ now > expire_time
  /\ rfState = "removed"


\* C13: the handler claims an echo only if its destination address and its
\* cmd1 are both those of the stored probe message, with CONTINUE for an ACK
\* and FINISHED for a NAK; any other echo, one to the same address with
\* another cmd1 included, returns UNKNOWN.
C13_EchoOfProbeOnly ==
  [][(rfState = "active" /\ rfOffered'.kind = "OutStandard") =>
       rfRet' = IF rfOffered'.addr = Probe.addr /\ rfOffered'.cmd1 = Probe.cmd1
                  THEN IF rfOffered'.is_ack THEN "CONTINUE" ELSE "FINISHED"
                  ELSE "UNKNOWN"]_vars


\* The NAK echo of the probe.
ProbeNak(m) ==
  /\ m.kind = "OutStandard" /\ m.addr = rf_addr /\ m.cmd1 = Probe.cmd1
  /\ ~m.is_ack

\* C14: on the NAK echo of its probe the handler returns FINISHED, sends
\* nothing and leaves send_count as it is; and if send_count < num_retry
\* then, the probe is later sent again with the handler.
C14_RetryAfterNak ==
  /\ [][(rfState = "active" /\ ProbeNak(rfOffered')) =>
          /\ rfRet' = "FINISHED"
          /\ probes' = probes
          /\ send_count' = send_count]_vars
  /\ \A k \in 1..MaxNumRetry :
       (ProbeNak(rfOffered) /\ rfRet = "FINISHED" /\ probes = k
          /\ send_count < num_retry) ~> (probes > k)


\* C17: send_count stays between 1 and num_retry, and no call of is_expired
\* or msg_received, on time or late, makes it smaller.
C17_SendCountRange ==
  /\ [](1 <= send_count /\ send_count <= num_retry)
  /\ [][send_count' >= send_count]_vars

\* The probe was sent again once on expiry (send_count 2 of 3), then the
\* reply set send_count to num_retry.
C17_Witness ==
  /\ num_retry = 3 /\ probes = 2 /\ send_count = 3
  /\ Len(refreshed) = 1 /\ rfRet = "FINISHED"


(***************************************************************************)
(* Properties of handlers of both kinds in one loop, checked under         *)
(* SpecBoth.                                                               *)
(***************************************************************************)
\* C18: while the DeviceRefresh handler and the StandardCmd handler are both
\* active for the same device, the device's reply to the StandardCmd is given
\* to the StandardCmd callback and is not taken by the DeviceRefresh handler
\* as its own reply, whichever of the two was registered first.
C18_ReplyToItsOwner ==
  [][\A m \in Messages :
       (/\ rfState = "active" /\ stdState[1] = "active"
        /\ std[1].addr = rf_addr
        /\ rfOffered' = m \/ stdOffered' = m
        /\ m.kind = "InpStandard" /\ m.addr = std[1].addr
        /\ m.cmd1 = std[1].cmd) =>
         /\ callbacks'[1] = Append(callbacks[1], m)
         /\ refreshed' = refreshed
         /\ rfState' = "active"]_vars

=============================================================================
